---- MODULE Spec2Model ----
(***************************************************************************)
(* Model of the Runway text-to-video client (runway_text_to_video.py):     *)
(* the RunwayTextToVideo class (generate_video, check_generation_status,   *)
(* wait_for_completion, download_video) and its two callers, the web-form  *)
(* workflow generate_video_workflow and the command line                   *)
(* create_cli_interface.                                                   *)
(*                                                                         *)
(* One behaviour is one invocation of an entry point.  The remote service  *)
(* is the environment: every response it can give is drawn with \E.        *)
(* Time is in whole seconds; time.time() is the variable now, advanced by  *)
(* time.sleep and by the duration of a status request.  Motion strength    *)
(* is counted in tenths (0.8 is 8).                                        *)
(***************************************************************************)
EXTENDS Integers, Sequences, FiniteSets, TLC

VARIABLES
    entry,          \* which entry point this behaviour runs
    pc,             \* position in the code
    args,           \* arguments of the generate_video call in progress
    payload,        \* generate_video's local payload dict
    posts,          \* POST /generate requests issued
    gvResult,       \* value returned by generate_video (the response JSON)
    exc,            \* the exception raised / being handled, <<>> when none
    task_id,        \* the caller's task_id local
    max_wait_time,  \* wait_for_completion's parameter
    start_time,     \* wait_for_completion's local
    now,            \* time.time()
    latency,        \* seconds one status request takes
    polls,          \* GET /tasks/<id> requests issued
    waits10,        \* time.sleep(10) calls made
    waits5,         \* time.sleep(5) calls made
    slept,          \* total seconds spent in time.sleep
    lastPoll,       \* what the most recent status request was answered (PollKind)
    lastSleep,      \* seconds of the most recent time.sleep, 0 when none
    sleptAfter,     \* what the status request before the most recent time.sleep was answered
    nCompleted,     \* status requests answered completed
    nPending,       \* status requests answered queued / processing
    nOther,         \* status requests answered failed / unrecognized / with an error
    final_result,   \* value returned by wait_for_completion
    downloads,      \* GET <video_url> requests issued
    file,           \* the destination file: whether it exists and its bytes
    filename,       \* download_video's filename argument
    local_path,     \* value returned by download_video
    remote,         \* the bytes the service holds at the video_url
    client,         \* the RunwayTextToVideo object: api_key, base_url, headers
    calls,          \* direct check_generation_status calls made
    request,        \* the GET the most recent of them sent: URL parts and headers
    lastResponse,   \* what the service answered it
    status_result,  \* what it returned
    shown           \* the outcome the presentation layer reported last

vars == <<entry, pc, args, payload, posts, gvResult, exc, task_id, max_wait_time,
          start_time, now, latency, polls, waits10, waits5, slept, lastPoll,
          lastSleep, sleptAfter, nCompleted, nPending, nOther, final_result, downloads, file,
          filename, local_path, remote, client, calls, request, lastResponse,
          status_result, shown>>

----------------------------------------------------------------------------
(* Bounds of the model *)

\* largest max_wait_time a direct wait_for_completion call is given
MaxWait == 32
\* largest duration of one status request, in seconds
MaxLatency == 1
\* largest seed value entered
MaxSeed == 2
\* cap on the polls counter (never reached by the code: 300 / 5 = 60 polls)
MaxPolls == 64
\* largest chunk response.iter_content yields (stands for chunk_size=8192)
ChunkSize == 2
\* longest body a direct download_video call fetches
MaxBody == 4
\* most check_generation_status calls a direct caller makes in a row
MaxCalls == 3

----------------------------------------------------------------------------
(* Values *)

\* Python's None where a string is expected
NoneVal == "<None>"
\* Python truthiness of a str-or-None value (`if video_url:`, `if not task_id:`)
Truthy(v) == v \notin {NoneVal, ""}

\* An Optional[int]: None is [given |-> FALSE, value |-> 0]
NoSeed == [given |-> FALSE, value |-> 0]
SomeSeed(n) == [given |-> TRUE, value |-> n]
\* Python truthiness of an Optional[int] (`if seed:`)
SeedTruthy(s) == s.given /\ s.value # 0

\* config.py
SUPPORTED_RESOLUTIONS == {"1280x768", "1920x1080", "768x1280", "1080x1920"}
DURATION_MIN == 1
DURATION_MAX == 10
\* in tenths
MOTION_MIN == 0
MOTION_MAX == 10

\* wait_for_completion's default max_wait_time
DefaultMaxWait == 300
\* the three time.sleep arguments of wait_for_completion
\* (mutant: the pending branch sleeps as briefly as the others)
PendingSleepSecsShort == 10 - 5
\* (mutant: the pending branch sleeps twice as long)
PendingSleepSecsLong == 10 + 10
PendingSleepSecs == 10
UnknownSleepSecs == 5
\* (mutant: the except clause retries without sleeping)
ErrorSleepSecsNone == 5 - 5
ErrorSleepSecs == 5

NoArgs == [none |-> TRUE]
NoPayload == [none |-> TRUE]
NoResult == [none |-> TRUE]
NoExc == <<>>
NoShown == <<>>
NoFile == [exists |-> FALSE, bytes |-> <<>>]
\* a file already at the destination before download_video is called
OldFile == [exists |-> TRUE, bytes |-> <<1, 1>>]
NoRequest == [none |-> TRUE]
NoResponse == [none |-> TRUE]

\* lines 17-22: RunwayTextToVideo(api_key)
Client(api_key) ==
    [api_key |-> api_key,
     base_url |-> "https://api.runwayml.com/v1",
     headers |-> [Authorization |-> <<"Bearer ", api_key>>,
                  ContentType |-> "application/json"]]

----------------------------------------------------------------------------
(* Inputs *)

Entries == {"web", "cli", "generate", "wait", "download", "status"}

Prompts == {"", "A calm lake at sunrise"}
\* what --duration / --resolution / --motion and a direct caller can pass
DurationInputs == {DURATION_MIN - 1, DURATION_MIN, 4, DURATION_MAX, DURATION_MAX + 1}
ResolutionInputs == SUPPORTED_RESOLUTIONS \cup {"640x480"}
MotionInputs == {MOTION_MIN - 1, MOTION_MIN, 8, MOTION_MAX, MOTION_MAX + 1}
SeedInputs == {NoSeed} \cup {SomeSeed(n) : n \in -1..MaxSeed}

\* the form's widgets (create_streamlit_app)
FormDurations == 1..10
FormResolutions == {"1280x768", "1920x1080", "768x1280", "1080x1920"}
FormMotions == 0..10
FormSeeds == 0..MaxSeed

\* the max_wait_time values a direct caller passes, the default among them
WaitBudgets == (0..MaxWait) \cup {DefaultMaxWait}

TaskIds == {"job-123"}
Urls == {NoneVal, "", "https://x/y.mp4"}
ErrorTexts == {NoneVal, "out of credits"}

\* responses to POST /generate: 200 with a JSON body (with or without "id"),
\* another status code, or a requests.exceptions.RequestException
SubmitResponses ==
    {[kind |-> "ok", id |-> i] : i \in TaskIds \cup {NoneVal}}
    \cup {[kind |-> "http_error", code |-> "500", text |-> "server error"],
          [kind |-> "transport_error", text |-> "connection reset"]}

\* responses to GET /tasks/<id>
Statuses == {"queued", "processing", "completed", "failed", "paused", ""}
PollResponses ==
    {[kind |-> "ok", status |-> "completed", video_url |-> u, error |-> NoneVal] : u \in Urls}
    \cup {[kind |-> "ok", status |-> "failed", video_url |-> NoneVal, error |-> e] : e \in ErrorTexts}
    \cup {[kind |-> "ok", status |-> s, video_url |-> NoneVal, error |-> NoneVal] :
             s \in Statuses \ {"completed", "failed"}}
    \cup {[kind |-> "http_error", status |-> "", video_url |-> NoneVal, error |-> "503"],
          [kind |-> "transport_error", status |-> "", video_url |-> NoneVal,
           error |-> "read timed out"]}

\* the bytes the service holds at a video_url
Artifact(url) == <<0, 1, 1>>

\* the bodies a video_url can hold: every byte string of at most MaxBody bytes
\* (bytes are 0 and 1)
Payloads == UNION {[1..n -> {0, 1}] : n \in 0..MaxBody}

\* the request's parameters are within config.py's limits
ValidRequest(a) ==
    /\ a.duration >= DURATION_MIN /\ a.duration <= DURATION_MAX
    /\ a.motion_strength >= MOTION_MIN /\ a.motion_strength <= MOTION_MAX
    /\ a.resolution \in SUPPORTED_RESOLUTIONS

----------------------------------------------------------------------------
(* Initial state: the chosen entry point is about to run *)

Init ==
    /\ entry \in Entries
    \* the workflows are explored with a service that answers at once (the case
    \* with the most polls), direct calls also with slower ones
    /\ latency \in IF entry = "wait" THEN 0..MaxLatency ELSE {0}
    /\ pc = "start"
    /\ args = NoArgs
    /\ payload = NoPayload
    /\ posts = 0
    /\ gvResult = NoResult
    /\ exc = NoExc
    /\ task_id = "<unset>"
    /\ max_wait_time = 0
    /\ start_time = 0
    /\ now = 0
    /\ polls = 0
    /\ waits10 = 0
    /\ waits5 = 0
    /\ slept = 0
    /\ lastPoll = "none"
    /\ lastSleep = 0
    /\ sleptAfter = "none"
    /\ nCompleted = 0
    /\ nPending = 0
    /\ nOther = 0
    /\ final_result = NoResult
    /\ downloads = 0
    /\ file \in IF entry = "download" THEN {NoFile, OldFile} ELSE {NoFile}
    /\ filename = NoneVal
    /\ local_path = NoneVal
    \* the workflows fetch one fixed artifact, direct calls every body
    /\ remote \in IF entry = "download" THEN Payloads ELSE {Artifact("https://x/y.mp4")}
    /\ client = Client("sk-test")
    /\ calls = 0
    /\ request = NoRequest
    /\ lastResponse = NoResponse
    /\ status_result = NoResult
    /\ shown = NoShown

clientVars == <<client, calls, request, lastResponse, status_result>>
waitVars == <<max_wait_time, start_time, now, polls, waits10, waits5, slept, lastPoll,
              lastSleep, sleptAfter, nCompleted, nPending, nOther, final_result>>
submitVars == <<args, payload, posts, gvResult>>
downloadVars == <<downloads, file, filename, local_path, remote>>

----------------------------------------------------------------------------
(* generate_video *)

CallArgs(p, d, r, m, s) ==
    [text_prompt |-> p, duration |-> d, resolution |-> r, motion_strength |-> m, seed |-> s]

\* lines 44-52: the payload dict
Payload(a) ==
    LET base == [text_prompt |-> a.text_prompt, duration |-> a.duration,
                 resolution |-> a.resolution, motion_strength |-> a.motion_strength]
    IN  IF SeedTruthy(a.seed) THEN base @@ [seed |-> a.seed.value] ELSE base

\* the call: parameters bound, payload built, about to post
CallGenerateVideo(a) ==
    /\ args' = a
    /\ payload' = Payload(a)
    /\ pc' = "gv_post"

\* (mutant: a failed POST is repeated once before the exception is raised)
PostRetriesOnce ==
    /\ pc = "gv_post"
    /\ \E r \in SubmitResponses :
        /\ posts' = posts + 1
        /\ IF r.kind = "ok"
           THEN /\ gvResult' = [id |-> r.id]
                /\ exc' = NoExc
                /\ pc' = "gv_returned"
                /\ args' = NoArgs
                /\ payload' = NoPayload
           ELSE IF posts = 0
           THEN /\ UNCHANGED <<gvResult, exc, pc, args, payload>>
           ELSE /\ gvResult' = NoResult
                /\ exc' = IF r.kind = "http_error"
                          THEN <<"API Error: ", r.code, r.text>>
                          ELSE <<"Request failed: ", r.text>>
                /\ pc' = "gv_raised"
                /\ args' = NoArgs
                /\ payload' = NoPayload
    /\ UNCHANGED clientVars
    /\ UNCHANGED <<entry, latency, task_id, shown>>
    /\ UNCHANGED waitVars
    /\ UNCHANGED downloadVars

\* lines 54-68: the POST and what becomes of its response
Post ==
    /\ pc = "gv_post"
    /\ \E r \in SubmitResponses :
        /\ posts' = posts + 1
        /\ IF r.kind = "ok"
           THEN /\ gvResult' = [id |-> r.id]
                /\ exc' = NoExc
                /\ pc' = "gv_returned"
           ELSE /\ gvResult' = NoResult
                /\ exc' = IF r.kind = "http_error"
                          THEN <<"API Error: ", r.code, r.text>>
                          ELSE <<"Request failed: ", r.text>>
                /\ pc' = "gv_raised"
    /\ args' = NoArgs
    /\ payload' = NoPayload
    /\ UNCHANGED clientVars
    /\ UNCHANGED <<entry, latency, task_id, shown>>
    /\ UNCHANGED waitVars
    /\ UNCHANGED downloadVars

\* a direct call of generate_video with any arguments
DirectGenerate ==
    /\ entry = "generate"
    /\ pc = "start"
    /\ \E p \in Prompts, d \in DurationInputs, r \in ResolutionInputs,
          m \in MotionInputs, s \in SeedInputs :
        CallGenerateVideo(CallArgs(p, d, r, m, s))
    /\ UNCHANGED clientVars
    /\ UNCHANGED <<entry, latency, posts, gvResult, exc, task_id, shown>>
    /\ UNCHANGED waitVars
    /\ UNCHANGED downloadVars

----------------------------------------------------------------------------
(* check_generation_status *)

\* lines 81-85: the request built from the client and the task id
StatusRequest(c, tid) ==
    [url |-> <<c.base_url, "/tasks/", tid>>, headers |-> c.headers]

\* lines 87-93: what a call returns or raises on the service's answer
StatusReturned(r) ==
    IF r.kind = "ok"
    THEN [status |-> r.status, video_url |-> r.video_url, error |-> r.error]
    ELSE NoResult
StatusRaised(r) ==
    CASE r.kind = "ok" -> NoExc
      [] r.kind = "http_error" -> <<"Status check failed: ", r.error>>
      [] OTHER -> <<"Status check request failed: ", r.error>>

\* (mutant: a status once fetched is kept on the client and returned again)
CheckStatusRemembers ==
    /\ entry = "status"
    /\ pc \in {"cs_call", "cs_returned", "cs_raised"}
    /\ calls < MaxCalls
    /\ \E r \in PollResponses :
        /\ calls' = calls + 1
        /\ request' = StatusRequest(client, task_id)
        /\ lastResponse' = r
        /\ IF status_result # NoResult
           THEN /\ status_result' = status_result
                /\ exc' = NoExc
                /\ pc' = "cs_returned"
                /\ client' = [client EXCEPT !.headers = @ @@ [Cached |-> "yes"]]
           ELSE /\ status_result' = StatusReturned(r)
                /\ exc' = StatusRaised(r)
                /\ pc' = IF r.kind = "ok" THEN "cs_returned" ELSE "cs_raised"
                /\ client' = client
    /\ UNCHANGED <<entry, latency, task_id, shown>>
    /\ UNCHANGED waitVars
    /\ UNCHANGED submitVars
    /\ UNCHANGED downloadVars

\* lines 80-93: one call; the caller may call again whatever came of it
CheckStatus ==
    /\ entry = "status"
    /\ pc \in {"cs_call", "cs_returned", "cs_raised"}
    /\ calls < MaxCalls
    /\ \E r \in PollResponses :
        /\ calls' = calls + 1
        /\ request' = StatusRequest(client, task_id)
        /\ lastResponse' = r
        /\ status_result' = StatusReturned(r)
        /\ exc' = StatusRaised(r)
        /\ pc' = IF r.kind = "ok" THEN "cs_returned" ELSE "cs_raised"
    /\ client' = client
    /\ UNCHANGED <<entry, latency, task_id, shown>>
    /\ UNCHANGED waitVars
    /\ UNCHANGED submitVars
    /\ UNCHANGED downloadVars

\* a direct caller holding a task id
DirectStatus ==
    /\ entry = "status"
    /\ pc = "start"
    /\ \E tid \in TaskIds \cup {NoneVal} : task_id' = tid
    /\ pc' = "cs_call"
    /\ UNCHANGED clientVars
    /\ UNCHANGED <<entry, latency, exc, shown>>
    /\ UNCHANGED waitVars
    /\ UNCHANGED submitVars
    /\ UNCHANGED downloadVars

----------------------------------------------------------------------------
(* wait_for_completion *)

\* line 106: the call; start_time = time.time()
CallWaitForCompletion(tid, mw) ==
    /\ task_id' = tid
    /\ max_wait_time' = mw
    /\ start_time' = now
    /\ pc' = "w_test"

\* (mutant: the budget test lets elapsed = max_wait_time through)
InBudgetInclusive(elapsed, mw) == elapsed <= mw
\* (mutant: max_wait_time = 0 is taken to mean no limit)
InBudgetZeroUnlimited(elapsed, mw) == mw = 0 \/ elapsed < mw

\* line 108: the while condition
InBudget(elapsed, mw) == elapsed < mw

\* (mutant: a failed status is returned like a completed one)
StatusBranchFailedReturns(status) ==
    CASE status \in {"completed", "failed"} -> "return"
      [] status \in {"queued", "processing"} -> "sleep_pending"
      [] OTHER -> "sleep_unknown"

\* (mutant: an unrecognized status is treated like a failed one)
StatusBranchUnknownRaises(status) ==
    CASE status = "completed" -> "return"
      [] status \in {"queued", "processing"} -> "sleep_pending"
      [] OTHER -> "raise"

\* lines 113-122: which branch a status takes
StatusBranch(status) ==
    CASE status = "completed" -> "return"
      [] status = "failed" -> "raise"
      [] status \in {"queued", "processing"} -> "sleep_pending"
      [] OTHER -> "sleep_unknown"

\* what the service answered, as the counters record it
PollKind(r) ==
    CASE r.kind # "ok" -> "error"
      [] r.status \in {"queued", "processing"} -> "pending"
      [] r.status \in {"completed", "failed"} -> r.status
      [] OTHER -> "unknown"

\* lines 80-93 and 110-111: what wait_for_completion sees of one status request:
\* a status, or an exception raised by check_generation_status
PollOutcome(r) ==
    IF r.kind = "ok" THEN StatusBranch(r.status) ELSE "error"

\* the exception a status request's outcome raises inside the try block
PollException(r) ==
    CASE r.kind = "http_error" -> <<"Status check failed: ", r.error>>
      [] r.kind = "transport_error" -> <<"Status check request failed: ", r.error>>
      [] OTHER -> <<"Generation failed: ",
                    IF r.error = NoneVal THEN "Unknown error" ELSE r.error>>

\* (mutant: the exception leaves wait_for_completion)
RaisedInLoopPropagates == "w_raised"

\* where an exception raised inside the try block of the loop goes:
\* line 124 catches every Exception, the one of line 116 included
RaisedInLoop == "w_except"

\* line 108 / 128: test the budget; leave the loop with the timeout when it is spent
WaitTest ==
    /\ pc = "w_test"
    /\ IF InBudget(now - start_time, max_wait_time)
       THEN /\ pc' = "w_poll"
            /\ exc' = exc
       ELSE /\ pc' = "w_raised"
            /\ exc' = <<"Generation timed out">>
    /\ UNCHANGED clientVars
    /\ UNCHANGED <<entry, latency, task_id, shown>>
    /\ UNCHANGED waitVars
    /\ UNCHANGED submitVars
    /\ UNCHANGED downloadVars

\* lines 109-117, 120: one status request and the branch taken on its answer
Poll ==
    /\ pc = "w_poll"
    /\ polls < MaxPolls
    /\ \E r \in PollResponses :
        LET o == PollOutcome(r) IN
        /\ polls' = polls + 1
        /\ now' = now + latency
        /\ lastPoll' = PollKind(r)
        /\ nCompleted' = IF PollKind(r) = "completed" THEN nCompleted + 1 ELSE nCompleted
        /\ nPending' = IF PollKind(r) = "pending" THEN nPending + 1 ELSE nPending
        /\ nOther' = IF PollKind(r) \in {"failed", "unknown", "error"}
                     THEN nOther + 1 ELSE nOther
        /\ final_result' = IF o = "return"
                           THEN [status |-> r.status, video_url |-> r.video_url]
                           ELSE final_result
        /\ exc' = IF o \in {"raise", "error"} THEN PollException(r) ELSE exc
        /\ pc' = CASE o = "return" -> "w_returned"
                   [] o \in {"raise", "error"} -> RaisedInLoop
                   [] o = "sleep_pending" -> "w_sleep_pending"
                   [] OTHER -> "w_sleep_unknown"
    /\ UNCHANGED clientVars
    /\ UNCHANGED <<entry, latency, task_id, shown, max_wait_time, start_time,
                   waits10, waits5, slept, lastSleep, sleptAfter>>
    /\ UNCHANGED submitVars
    /\ UNCHANGED downloadVars

\* time.sleep(secs), then back to the while condition
Sleep(secs) ==
    /\ now' = now + secs
    /\ sleptAfter' = lastPoll
    /\ slept' = slept + secs
    /\ lastSleep' = secs
    /\ waits10' = IF secs = 10 THEN waits10 + 1 ELSE waits10
    /\ waits5' = IF secs = 5 THEN waits5 + 1 ELSE waits5
    /\ pc' = "w_test"
    /\ UNCHANGED clientVars
    /\ UNCHANGED <<entry, latency, task_id, shown, max_wait_time, start_time, polls,
                   lastPoll, nCompleted, nPending, nOther, final_result>>
    /\ UNCHANGED submitVars
    /\ UNCHANGED downloadVars

\* lines 117-119
SleepPending ==
    /\ pc = "w_sleep_pending"
    /\ Sleep(PendingSleepSecs)
    /\ exc' = exc

\* lines 120-122
SleepUnknown ==
    /\ pc = "w_sleep_unknown"
    /\ Sleep(UnknownSleepSecs)
    /\ exc' = exc

\* lines 124-126: the except clause; e is unbound when it ends
ExceptSleep ==
    /\ pc = "w_except"
    /\ Sleep(ErrorSleepSecs)
    /\ exc' = NoExc

\* a direct call of wait_for_completion
DirectWait ==
    /\ entry = "wait"
    /\ pc = "start"
    /\ \E mw \in WaitBudgets : CallWaitForCompletion("job-123", mw)
    /\ UNCHANGED clientVars
    /\ UNCHANGED <<entry, latency, exc, shown, now, polls, waits10, waits5, slept,
                   lastPoll, lastSleep, sleptAfter, nCompleted, nPending, nOther,
                   final_result>>
    /\ UNCHANGED submitVars
    /\ UNCHANGED downloadVars

----------------------------------------------------------------------------
(* download_video *)

\* response.iter_content(chunk_size): every way of cutting a body into
\* non-empty chunks of at most ChunkSize bytes, in order
RECURSIVE Splits(_)
Splits(body) ==
    IF body = <<>> THEN {<<>>}
    ELSE UNION {{<<SubSeq(body, 1, n)>> \o rest :
                    rest \in Splits(SubSeq(body, n + 1, Len(body)))} :
                n \in 1..(IF Len(body) < ChunkSize THEN Len(body) ELSE ChunkSize)}

\* responses to GET <video_url> when the service holds body: 200 and the body
\* streamed in chunks; 200 and a stream that breaks (a RequestException out of
\* iter_content) after some of the chunks; another status code; a
\* RequestException before any response
DownloadResponses(body) ==
    {[kind |-> "ok", chunks |-> c, error |-> NoneVal] : c \in Splits(body)}
    \cup UNION {{[kind |-> "broken_stream", chunks |-> SubSeq(c, 1, k),
                  error |-> "connection broken"] :
                    k \in 0..(IF Len(c) = 0 THEN 0 ELSE Len(c) - 1)} :
                c \in Splits(body)}
    \cup {[kind |-> "http_error", chunks |-> <<>>, error |-> "404"],
          [kind |-> "transport_error", chunks |-> <<>>, error |-> "connection reset"]}

\* (mutant: every chunk is written at the start of the file)
RECURSIVE WriteChunksPrepending(_, _)
WriteChunksPrepending(bytes, chunks) ==
    IF chunks = <<>> THEN bytes
    ELSE WriteChunksPrepending(Head(chunks) \o bytes, Tail(chunks))

\* lines 145-147: open(filename, 'wb') truncates, then every chunk is appended
RECURSIVE WriteChunks(_, _)
WriteChunks(bytes, chunks) ==
    IF chunks = <<>> THEN bytes
    ELSE WriteChunks(bytes \o Head(chunks), Tail(chunks))

\* (mutant: the destination is opened before the status code is looked at)
DownloadOpensFirst ==
    /\ pc = "dl_fetch"
    /\ \E r \in DownloadResponses(remote) :
        /\ downloads' = downloads + 1
        /\ file' = IF r.kind = "transport_error" THEN file
                   ELSE [exists |-> TRUE, bytes |-> WriteChunks(<<>>, r.chunks)]
        /\ IF r.kind = "ok"
           THEN /\ local_path' = filename
                /\ exc' = NoExc
                /\ pc' = "dl_returned"
           ELSE /\ local_path' = local_path
                /\ exc' = IF r.kind = "http_error"
                          THEN <<"Download failed: ", r.error>>
                          ELSE <<"Download request failed: ", r.error>>
                /\ pc' = "dl_raised"
    /\ UNCHANGED clientVars
    /\ UNCHANGED <<entry, latency, task_id, shown, filename, remote>>
    /\ UNCHANGED waitVars
    /\ UNCHANGED submitVars

\* lines 141-154
Download ==
    /\ pc = "dl_fetch"
    /\ \E r \in DownloadResponses(remote) :
        /\ downloads' = downloads + 1
        /\ file' = IF r.kind \in {"ok", "broken_stream"}
                   THEN [exists |-> TRUE, bytes |-> WriteChunks(<<>>, r.chunks)]
                   ELSE file
        /\ IF r.kind = "ok"
           THEN /\ local_path' = filename
                /\ exc' = NoExc
                /\ pc' = "dl_returned"
           ELSE /\ local_path' = local_path
                /\ exc' = IF r.kind = "http_error"
                          THEN <<"Download failed: ", r.error>>
                          ELSE <<"Download request failed: ", r.error>>
                /\ pc' = "dl_raised"
    /\ UNCHANGED clientVars
    /\ UNCHANGED <<entry, latency, task_id, shown, filename, remote>>
    /\ UNCHANGED waitVars
    /\ UNCHANGED submitVars

\* a direct call of download_video
DirectDownload ==
    /\ entry = "download"
    /\ pc = "start"
    /\ filename' = "out.mp4"
    /\ pc' = "dl_fetch"
    /\ UNCHANGED clientVars
    /\ UNCHANGED <<entry, latency, exc, task_id, shown, downloads, file, local_path,
                   remote>>
    /\ UNCHANGED waitVars
    /\ UNCHANGED submitVars

----------------------------------------------------------------------------
(* generate_video_workflow, as the form calls it *)

\* lines 197-201: the button handler; an empty prompt never reaches the workflow
WebForm ==
    /\ entry = "web"
    /\ pc = "start"
    /\ \E p \in Prompts, d \in FormDurations, r \in FormResolutions,
          m \in FormMotions, s \in FormSeeds :
        IF p = ""
        THEN /\ shown' = <<"st.error", "Please enter a video description">>
             /\ pc' = "done"
             /\ UNCHANGED <<args, payload>>
        ELSE \* lines 234-240: seed=seed if seed > 0 else None
             /\ CallGenerateVideo(CallArgs(p, d, r, m, IF s > 0 THEN SomeSeed(s) ELSE NoSeed))
             /\ shown' = shown
    /\ UNCHANGED clientVars
    /\ UNCHANGED <<entry, latency, posts, gvResult, exc, task_id>>
    /\ UNCHANGED waitVars
    /\ UNCHANGED downloadVars

\* lines 242-252: a response without "id" stops the workflow; otherwise wait
WebSubmitted ==
    /\ entry = "web"
    /\ pc = "gv_returned"
    /\ IF ~Truthy(gvResult.id)
       THEN /\ task_id' = gvResult.id
            /\ shown' = <<"st.error", "Failed to start generation">>
            /\ pc' = "done"
            /\ UNCHANGED <<max_wait_time, start_time>>
       ELSE /\ CallWaitForCompletion(gvResult.id, DefaultMaxWait)
            /\ shown' = shown
    /\ UNCHANGED clientVars
    /\ UNCHANGED <<entry, latency, exc, now, polls, waits10, waits5, slept, lastPoll,
                   lastSleep, sleptAfter, nCompleted, nPending, nOther,
                   final_result>>
    /\ UNCHANGED submitVars
    /\ UNCHANGED downloadVars

\* lines 256-266 and 295-296: download when the result carries a video_url
WebCompleted ==
    /\ entry = "web"
    /\ pc = "w_returned"
    /\ IF Truthy(final_result.video_url)
       THEN /\ filename' = "generated_video_<timestamp>.mp4"
            /\ pc' = "dl_fetch"
            /\ shown' = shown
       ELSE /\ filename' = filename
            /\ pc' = "done"
            /\ shown' = <<"st.error", "Failed to generate video">>
    /\ UNCHANGED clientVars
    /\ UNCHANGED <<entry, latency, exc, task_id, downloads, file, local_path, remote>>
    /\ UNCHANGED waitVars
    /\ UNCHANGED submitVars

\* lines 267-293
WebDownloaded ==
    /\ entry = "web"
    /\ pc = "dl_returned"
    /\ shown' = <<"st.success", "Your video is ready!">>
    /\ pc' = "done"
    /\ UNCHANGED clientVars
    /\ UNCHANGED <<entry, latency, exc, task_id>>
    /\ UNCHANGED waitVars
    /\ UNCHANGED submitVars
    /\ UNCHANGED downloadVars

\* lines 298-301: the workflow's except clause, for whatever was raised
WebError ==
    /\ entry = "web"
    /\ pc \in {"gv_raised", "w_raised", "dl_raised"}
    /\ shown' = <<"st.error", "Error: ">> \o exc
    /\ exc' = NoExc
    /\ pc' = "done"
    /\ UNCHANGED clientVars
    /\ UNCHANGED <<entry, latency, task_id>>
    /\ UNCHANGED waitVars
    /\ UNCHANGED submitVars
    /\ UNCHANGED downloadVars

----------------------------------------------------------------------------
(* create_cli_interface *)

\* lines 316-327: no --seed flag; the values are passed as parsed
CliMain ==
    /\ entry = "cli"
    /\ pc = "start"
    /\ \E p \in Prompts, d \in DurationInputs, r \in ResolutionInputs, m \in MotionInputs :
        CallGenerateVideo(CallArgs(p, d, r, m, NoSeed))
    /\ UNCHANGED clientVars
    /\ UNCHANGED <<entry, latency, posts, gvResult, exc, task_id, shown>>
    /\ UNCHANGED waitVars
    /\ UNCHANGED downloadVars

\* lines 329-334: task_id is printed and waited on, whatever it is
CliSubmitted ==
    /\ entry = "cli"
    /\ pc = "gv_returned"
    /\ CallWaitForCompletion(gvResult.id, DefaultMaxWait)
    /\ UNCHANGED clientVars
    /\ UNCHANGED <<entry, latency, exc, shown, now, polls, waits10, waits5, slept,
                   lastPoll, lastSleep, sleptAfter, nCompleted, nPending, nOther,
                   final_result>>
    /\ UNCHANGED submitVars
    /\ UNCHANGED downloadVars

\* lines 337-343
CliCompleted ==
    /\ entry = "cli"
    /\ pc = "w_returned"
    /\ IF Truthy(final_result.video_url)
       THEN /\ filename' = "output.mp4"
            /\ pc' = "dl_fetch"
            /\ shown' = shown
       ELSE /\ filename' = filename
            /\ pc' = "done"
            /\ shown' = <<"print", "Generation failed">>
    /\ UNCHANGED clientVars
    /\ UNCHANGED <<entry, latency, exc, task_id, downloads, file, local_path, remote>>
    /\ UNCHANGED waitVars
    /\ UNCHANGED submitVars

\* line 341
CliDownloaded ==
    /\ entry = "cli"
    /\ pc = "dl_returned"
    /\ shown' = <<"print", "Video saved">>
    /\ pc' = "done"
    /\ UNCHANGED clientVars
    /\ UNCHANGED <<entry, latency, exc, task_id>>
    /\ UNCHANGED waitVars
    /\ UNCHANGED submitVars
    /\ UNCHANGED downloadVars

\* nothing in create_cli_interface catches: the exception ends the process
\* with a traceback whose last line is the message
CliUncaught ==
    /\ entry = "cli"
    /\ pc \in {"gv_raised", "w_raised", "dl_raised"}
    /\ shown' = <<"traceback", "Exception: ">> \o exc
    /\ pc' = "done"
    /\ UNCHANGED clientVars
    /\ UNCHANGED <<entry, latency, exc, task_id>>
    /\ UNCHANGED waitVars
    /\ UNCHANGED submitVars
    /\ UNCHANGED downloadVars

----------------------------------------------------------------------------
(* Specifications *)

Next ==
    \/ DirectGenerate
    \/ DirectDownload
    \/ DirectStatus
    \/ CheckStatus
    \/ DirectWait
    \/ WebForm
    \/ CliMain
    \/ Post
    \/ WebSubmitted
    \/ CliSubmitted
    \/ WaitTest
    \/ Poll
    \/ SleepPending
    \/ SleepUnknown
    \/ ExceptSleep
    \/ WebCompleted
    \/ CliCompleted
    \/ Download
    \/ WebDownloaded
    \/ CliDownloaded
    \/ WebError
    \/ CliUncaught

Spec == Init /\ [][Next]_vars

\* the code is sequential: whenever a next statement exists it is executed
\* (every request returns, every sleep ends)
FairSpec == Spec /\ WF_vars(Next)

\* wait_for_completion alone, called directly
InitWait == Init /\ entry = "wait"

NextWait ==
    \/ DirectWait
    \/ WaitTest
    \/ Poll
    \/ SleepPending
    \/ SleepUnknown
    \/ ExceptSleep

WaitSpec == InitWait /\ [][NextWait]_vars

FairWaitSpec == WaitSpec /\ WF_vars(NextWait)

----------------------------------------------------------------------------
(* Properties *)

Workflows == {"web", "cli"}
InWait == pc \in {"w_test", "w_poll", "w_sleep_pending", "w_sleep_unknown", "w_except"}
WaitEnded == pc \in {"w_returned", "w_raised"}
TimedOut == <<"Generation timed out">>
IsGenerationFailed(e) == Len(e) = 2 /\ e[1] = "Generation failed: "
Populated(v) == v # NoneVal /\ v # ""

\* C1: when the first status request is answered "failed", wait_for_completion
\* has raised the generation-failed error, after that one request and without
\* sleeping.
C1_FailedFirstPollRaises ==
    (entry = "wait" /\ polls = 1 /\ lastPoll = "failed")
        => (pc = "w_raised" /\ IsGenerationFailed(exc) /\ slept = 0)

\* C2: generate_video called with a duration, motion strength or resolution
\* outside config.py's limits raises a validation error and sends no POST.
C2_InvalidRequestNotSent ==
    [][(pc = "gv_post" /\ ~ValidRequest(args))
          => (posts' = posts /\ pc' = "gv_raised" /\ exc'[1] = "ValidationError")]_vars

\* C3: wait_for_completion always ends, whatever the service answers, and it
\* ends with a completed result returned, with the generation-failed error or
\* with the timeout.
C3_WaitTerminates ==
    /\ InWait ~> WaitEnded
    /\ [](pc = "w_returned" => final_result.status = "completed")
    /\ [](pc = "w_raised" => (exc = TimedOut \/ IsGenerationFailed(exc)))

C3_Witness ==
    /\ pc = "w_raised"
    /\ exc = TimedOut
    /\ nPending >= 1
    /\ nOther >= 2
    /\ lastPoll = "failed"

\* C4: a status request that raises does not end the wait (the only exception
\* raised out of the wait is not that one), and when the next request is
\* answered completed the call returns that result, one 5 second sleep having
\* been made between the two requests.
C4_PollErrorTolerated ==
    /\ [](lastPoll = "error" => (pc # "w_raised" \/ exc = TimedOut))
    /\ [][(pc = "w_poll" /\ lastPoll = "error" /\ polls' = polls + 1
             /\ lastPoll' = "completed")
          => (/\ pc' = "w_returned"
              /\ final_result'.status = "completed"
              /\ lastSleep = 5
              /\ sleptAfter = "error"
              /\ slept' = slept)]_vars

C4_Witness ==
    /\ pc = "w_returned"
    /\ polls = 2
    /\ sleptAfter = "error"
    /\ slept = 5

\* C5: a direct call with max_wait_time = 0 makes at most one status request,
\* never sleeps, and can only end by raising the timeout.
C5_ZeroBudgetTimesOut ==
    (entry = "wait" /\ pc # "start" /\ max_wait_time = 0)
        => (/\ polls <= 1
            /\ slept = 0
            /\ pc \in {"w_test", "w_raised"}
            /\ (pc = "w_raised" => exc = TimedOut))

C5_Witness ==
    entry = "wait" /\ max_wait_time = 0 /\ pc = "w_raised" /\ exc = TimedOut

\* C6: when wait_for_completion returns after n answers of queued / processing
\* and no other answer before the completed one, it has made n + 1 status
\* requests and n sleeps, each of 10 seconds.
C6_PendingThenCompleted ==
    (pc = "w_returned" /\ nOther = 0)
        => (/\ polls = nPending + 1
            /\ waits10 = nPending
            /\ waits5 = 0
            /\ slept = 10 * nPending)

C6_Witness ==
    /\ pc = "w_returned"
    /\ nOther = 0
    /\ nPending = 2
    /\ polls = 3
    /\ waits10 = 2
    /\ Populated(final_result.video_url)

C8_FailedJobShownAsFailed ==
    (entry \in Workflows /\ task_id \in TaskIds /\ pc = "done" /\ lastPoll = "failed")
        => (Len(shown) = 4 /\ shown[3] = "Generation failed: ")

\* C9: a workflow whose submission response has no "id" makes no status
\* request and no download.
C9_NoIdNoPoll ==
    (entry \in Workflows /\ task_id = NoneVal) => (polls = 0 /\ downloads = 0)

\* the submission of this workflow failed: generate_video raised, or the
\* response it returned has no "id"
SubmissionFailed ==
    /\ posts = 1
    /\ pc # "gv_post"
    /\ (gvResult = NoResult \/ ~Populated(gvResult.id))

SuccessShown ==
    shown \in {<<"st.success", "Your video is ready!">>, <<"print", "Video saved">>}

\* The order of a workflow's requests: the POST comes first, then the status
\* requests, then at most one download, started only once wait_for_completion
\* returned a completed result with a video_url; success is shown only after
\* the download.
WorkflowOrder ==
    /\ [](entry \in Workflows
            => (/\ posts <= 1
                /\ downloads <= 1
                /\ (polls >= 1 => posts = 1)
                /\ (pc = "dl_fetch" \/ downloads = 1
                      => (/\ posts = 1
                          /\ polls >= 1
                          /\ lastPoll = "completed"
                          /\ final_result # NoResult
                          /\ final_result.status = "completed"
                          /\ Populated(final_result.video_url)))
                /\ (SuccessShown => (downloads = 1 /\ file.exists))
                /\ (file.exists => downloads = 1)))
    /\ [][(entry \in Workflows)
            => (/\ (posts' # posts => (polls = 0 /\ downloads = 0))
                /\ (polls' # polls => downloads = 0))]_vars

\* C10: a workflow makes its requests in the order POST, status requests, at
\* most one download, the download only after a completed result with a
\* video_url; and a workflow whose submission failed, or whose wait timed out,
\* neither downloads nor shows success.
C10_SubmitPollDownload ==
    /\ WorkflowOrder
    /\ []((entry \in Workflows /\ pc = "w_raised") => (downloads = 0 /\ ~SuccessShown))
    /\ []((entry \in Workflows /\ SubmissionFailed) => (downloads = 0 /\ ~SuccessShown))

PayloadFields == {"text_prompt", "duration", "resolution", "motion_strength"}
FieldsPassedThrough ==
    /\ PayloadFields \subseteq DOMAIN payload
    /\ DOMAIN payload \subseteq PayloadFields \cup {"seed"}
    /\ \A f \in PayloadFields : payload[f] = args[f]

\* C11: the payload generate_video posts has a "seed" field exactly
\* when the seed argument is a positive integer, and the other four fields
\* are the arguments unchanged (looked at for requests within config.py's
\* limits, so that the seed is the only thing in question).
C11_SeedOnlyWhenPositive ==
    (pc = "gv_post" /\ ValidRequest(args) /\ args.text_prompt # "")
        => (/\ FieldsPassedThrough
            /\ ("seed" \in DOMAIN payload) <=> (args.seed.given /\ args.seed.value > 0))

\* C12: in wait_for_completion a poll answered with a status other than
\* queued, processing, completed or failed (a missing one included) raises
\* nothing: the loop sleeps 5 seconds and tests the budget again, and the
\* call ends only by returning a completed status or by the timeout.
C12_UnknownStatusRetried ==
    /\ [][(pc = "w_poll" /\ lastPoll' = "unknown")
              => (pc' = "w_sleep_unknown" /\ exc' = exc
                  /\ final_result' = final_result)]_vars
    /\ [][(pc = "w_sleep_unknown")
              => (/\ lastPoll = "unknown"
                  /\ pc' = "w_test"
                  /\ now' = now + 5
                  /\ slept' = slept + 5
                  /\ exc' = exc)]_vars
    /\ [](sleptAfter = "unknown" /\ pc = "w_raised" => exc = TimedOut)
    /\ [](sleptAfter = "unknown" /\ pc = "w_returned"
              => lastPoll = "completed" /\ final_result.status = "completed")

C12_Witness ==
    /\ pc = "w_raised"
    /\ exc = TimedOut
    /\ sleptAfter = "unknown"
    /\ nOther = polls
    /\ polls >= 2

\* the exception generate_video raises on a non-200 response or a
\* RequestException
IsSubmissionError(e) == Len(e) >= 2 /\ e[1] \in {"API Error: ", "Request failed: "}
SubmissionErrorShown ==
    /\ Len(shown) >= 3
    /\ shown[3] \in {"API Error: ", "Request failed: "}

\* C13: a submission that fails (non-200 response or network failure) is
\* raised to the caller without a retry: one generate_video call issues
\* exactly one POST, and once it has failed the workflow reports that very
\* exception and issues no second POST, no status request and no download.
C13_FailedSubmissionNotRetried ==
    /\ [][(pc = "gv_post") => (posts' = posts + 1 /\ pc' \in {"gv_returned", "gv_raised"})]_vars
    /\ [](posts <= 1)
    /\ [](pc = "gv_raised"
            => (/\ IsSubmissionError(exc)
                /\ gvResult = NoResult
                /\ posts = 1 /\ polls = 0 /\ downloads = 0))
    /\ [][(pc = "gv_raised")
            => (/\ pc' = "done"
                /\ shown' \in {<<"st.error", "Error: ">> \o exc,
                               <<"traceback", "Exception: ">> \o exc}
                /\ posts' = 1 /\ polls' = 0 /\ downloads' = 0)]_vars
    /\ [](SubmissionErrorShown
            => (pc = "done" /\ posts = 1 /\ polls = 0 /\ downloads = 0 /\ ~file.exists))

C13_Witness ==
    /\ entry \in Workflows
    /\ pc = "done"
    /\ SubmissionErrorShown
    /\ posts = 1
    /\ polls = 0
    /\ downloads = 0

\* C14: every wait of the loop counts against the budget: a status request
\* is started only while the elapsed time since the call began is below
\* max_wait_time, whatever waits (10 s after queued / processing, 5 s after
\* an unrecognized status, 5 s after a failed request) came before it, so
\* one call makes at most ceil(max_wait_time / 5) status requests.
C14_RetriesCountAgainstBudget ==
    /\ [][(polls' = polls + 1)
            => (/\ pc = "w_poll"
                /\ now - start_time < max_wait_time
                /\ now - start_time >= 10 * waits10 + 5 * waits5
                /\ polls = waits10 + waits5)]_vars
    /\ [](5 * polls < max_wait_time + 5)

C14_Witness ==
    /\ pc = "w_raised"
    /\ exc = TimedOut
    /\ max_wait_time > 10
    /\ 5 * polls >= max_wait_time
    /\ sleptAfter = "error"
    /\ waits10 = 0

\* C18: wait_for_completion raises the timeout only when the elapsed time is
\* at least max_wait_time, and the time spent in time.sleep is then below
\* max_wait_time + 10: the last sleep is not cut to the remaining budget, so
\* the overshoot is less than one sleep.
C18_TimeoutOvershootBounded ==
    /\ [][(pc' = "w_raised" /\ pc # "w_raised")
            => (/\ pc = "w_test"
                /\ exc' = TimedOut
                /\ now - start_time >= max_wait_time
                /\ UNCHANGED <<now, slept, polls>>)]_vars
    /\ [](pc = "w_raised"
            => (/\ exc = TimedOut
                /\ now - start_time >= max_wait_time
                /\ slept <= now - start_time
                /\ (latency = 0 => slept = now - start_time)
                /\ slept < max_wait_time + 10
                /\ slept - lastSleep < max_wait_time \/ slept = 0))

C18_Witness ==
    /\ pc = "w_raised"
    /\ exc = TimedOut
    /\ latency = 0
    /\ lastSleep = 10
    /\ max_wait_time > 10
    /\ slept = max_wait_time + 9

\* C15: when the fetch is answered 200 and the body is streamed to its end,
\* download_video leaves a destination file whose content is the chunks in
\* order, which is the body the service holds, whatever the body (empty and
\* shorter than one chunk included) and however it was cut into chunks, and
\* returns the destination path.
C15_DownloadRoundTrip ==
    /\ [][(pc = "dl_fetch" /\ pc' = "dl_returned")
            => (/\ file' = [exists |-> TRUE, bytes |-> remote]
                /\ local_path' = filename
                /\ downloads' = downloads + 1
                /\ exc' = NoExc)]_vars
    /\ [](pc = "dl_returned"
            => (/\ file.exists
                /\ file.bytes = remote
                /\ \A c \in Splits(remote) : WriteChunks(<<>>, c) = file.bytes
                /\ local_path = filename
                /\ filename # NoneVal))

C15_Witness ==
    /\ entry = "download"
    /\ pc = "dl_returned"
    /\ Len(remote) > ChunkSize
    /\ remote # <<1, 1, 1, 1>> /\ remote # <<0, 0, 0, 0>>
    /\ file = [exists |-> TRUE, bytes |-> remote]
    /\ local_path = "out.mp4"

\* the exception download_video raises on a status code other than 200
IsDownloadFailed(e) == Len(e) = 2 /\ e[1] = "Download failed: "

\* C17: when the fetch is answered with a status code other than 200,
\* download_video raises the download error without opening the
\* destination: a file that was not there is not created, one that was there
\* keeps its content, nothing is returned, and the call has made exactly one
\* fetch.
C17_FailedFetchLeavesFile ==
    /\ [][(pc = "dl_fetch" /\ pc' = "dl_raised" /\ IsDownloadFailed(exc'))
            => (/\ file' = file
                /\ local_path' = local_path
                /\ downloads' = downloads + 1)]_vars
    /\ [](pc = "dl_raised" /\ IsDownloadFailed(exc)
            => (/\ downloads = 1
                /\ local_path = NoneVal
                /\ file \in {NoFile, OldFile}
                /\ (entry \in Workflows => file = NoFile)))

C17_Witness ==
    /\ entry = "download"
    /\ pc = "dl_raised"
    /\ exc = <<"Download failed: ", "404">>
    /\ file = OldFile
    /\ remote # OldFile.bytes
    /\ downloads = 1

\* C16: check_generation_status keeps no local state: no call, returning or
\* raising, direct or made by wait_for_completion, changes the client's
\* api_key, base_url or headers or the task id, and what a call sends is
\* built from the client and the task id alone, and what it returns or raises
\* is decided by the service's answer to that very call.
C16_StatusCallsIndependent ==
    /\ [][client' = client]_vars
    /\ [][(polls' # polls \/ calls' # calls) => task_id' = task_id]_vars
    /\ [][(calls' # calls)
            => (/\ calls' = calls + 1
                /\ request' = StatusRequest(client, task_id)
                /\ status_result' = StatusReturned(lastResponse')
                /\ exc' = StatusRaised(lastResponse')
                /\ pc' = IF lastResponse'.kind = "ok"
                         THEN "cs_returned" ELSE "cs_raised")]_vars
    /\ [](client = Client(client.api_key))
    /\ [](calls > 0
            => (/\ status_result = StatusReturned(lastResponse)
                /\ exc = StatusRaised(lastResponse)
                /\ request = StatusRequest(client, task_id)))

C16_Witness ==
    /\ entry = "status"
    /\ calls >= 3
    /\ pc = "cs_raised"
    /\ status_result = NoResult
    /\ exc = <<"Status check failed: ", "503">>
    /\ client = Client("sk-test")
    /\ task_id = "job-123"

====
